---------------------------- MODULE Spec2Model ----------------------------
(***************************************************************************)
(* SimpleMDP (mellowmax_softmax/envs/simple_mdp.py): the two-state MDP of   *)
(* Asadi & Littman, as a gym environment.                                   *)
(*                                                                         *)
(* Numbers: probabilities are in hundredths (0.66 -> 66), rewards in        *)
(* thousandths (0.122 -> 122).  Arrays are functions on 0..n-1, indexed     *)
(* the way numpy indexes them (a negative index counts from the end).       *)
(***************************************************************************)
EXTENDS Integers, Sequences, FiniteSets, TLC

VARIABLES
    env,     \* engine 1: the fields of one SimpleMDP object
    ret,     \* engine 1: the outcome of the last call (result tuple or exception, and what it logged)
    hist,    \* engine 1: observation history of the calls made so far (not read by the engine)
    env2,    \* engine 2: the fields of a second SimpleMDP object
    ret2,    \* engine 2: the outcome of its last call
    mode     \* how the two engines are driven: freely, or in lockstep after a common reset(seed=K)

vars == <<env, ret, hist, env2, ret2, mode>>

-----------------------------------------------------------------------------
(* Bounds *)

\* Draws one generator may serve before the model stops stepping it.
MaxDraws == 3
\* Seeds 0..NumSeeds-1 are the seeds a caller (or the OS entropy) may supply.
NumSeeds == 3

-----------------------------------------------------------------------------
(* Values *)

\* Python's None, for the integer-valued fields and arguments.
None == -1

Seeds == 0 .. (NumSeeds - 1)
\* The action arguments a caller passes: the two actions, and two that are not.
ValidActions == {0, 1}
InvalidActions == {-1, 2}

PostTerminalMessage == "You are calling 'step()' even though this environment has already returned done = True."
RenderMessage == "This environment doesn't support rendering."
NotResetMessage == "Call reset before using step method."

\* A Python sequence literal as an array indexed from 0.
Arr(seq) == [i \in 0 .. (Len(seq) - 1) |-> seq[i + 1]]

\* numpy / list indexing: arr[i], a negative i counting from the end.
Idx(arr, i) == arr[IF i < 0 THEN i + Cardinality(DOMAIN arr) ELSE i]

-----------------------------------------------------------------------------
(* Construction *)

\* spaces.Discrete(n).contains(x)
DiscreteContainsNoLowerBound(n, x) == x < n
DiscreteContains(n, x) == 0 <= x /\ x < n

\* self.transition: S x A x S'
TransitionTensorTerminalLeaks ==
    Arr(<< Arr(<< Arr(<<66, 34>>), Arr(<<99, 1>>) >>),
           Arr(<< Arr(<<100, 0>>), Arr(<<100, 0>>) >>) >>)
TransitionTensorRowShort ==
    Arr(<< Arr(<< Arr(<<66, 24>>), Arr(<<99, 1>>) >>),
           Arr(<< Arr(<<0, 100>>), Arr(<<0, 100>>) >>) >>)
TransitionTensor ==
    Arr(<< Arr(<< Arr(<<66, 34>>), Arr(<<99, 1>>) >>),
           Arr(<< Arr(<<0, 100>>), Arr(<<0, 100>>) >>) >>)

\* self.reward: S x A
RewardMatrix ==
    Arr(<< Arr(<<122, 33>>), Arr(<<0, 0>>) >>)

\* self.P: state -> action -> list of (probability, next_state, reward, done)
PTable ==
    Arr(<< Arr(<< << <<66, 0, 122, FALSE>>, <<34, 1, 122, TRUE>> >>,
                  << <<99, 0, 33, FALSE>>, <<1, 1, 33, TRUE>> >> >>),
           Arr(<< << <<0, 0, 0, FALSE>>, <<100, 1, 0, TRUE>> >>,
                  << <<0, 0, 0, FALSE>>, <<100, 1, 0, TRUE>> >> >>) >>)

\* The generator before anything seeded it (gym creates it on first use).
Unseeded == [seed |-> None, pos |-> 0]

\* __init__
SimpleMDPStartsInS1 ==
    [ action_space      |-> 2,
      observation_space |-> 2,
      state             |-> 0,
      transition        |-> TransitionTensor,
      P                 |-> PTable,
      reward            |-> RewardMatrix,
      steps_beyond_done |-> None,
      np_random         |-> Unseeded ]
SimpleMDP ==
    [ action_space      |-> 2,
      observation_space |-> 2,
      state             |-> None,
      transition        |-> TransitionTensor,
      P                 |-> PTable,
      reward            |-> RewardMatrix,
      steps_beyond_done |-> None,
      np_random         |-> Unseeded ]

-----------------------------------------------------------------------------
(* Outcomes of a call *)

NoCall ==
    [ call |-> "none", action |-> None, seed |-> None, raised |-> FALSE,
      exc |-> "", msg |-> "", obs |-> None, reward |-> None, done |-> FALSE,
      info |-> "", logged |-> "", model |-> "" ]

Raised(call, action, exc, msg) ==
    [NoCall EXCEPT !.call = call, !.action = action, !.raised = TRUE,
                   !.exc = exc, !.msg = msg]

\* Transition models a caller may try to hand to the constructor: the engine's own,
\* one with a row summing to 0.9, one with a negative entry.
SuppliedModels ==
    [ valid |-> TransitionTensor,
      row_sums_to_0_9 |->
          Arr(<< Arr(<< Arr(<<66, 24>>), Arr(<<99, 1>>) >>),
                 Arr(<< Arr(<<0, 100>>), Arr(<<0, 100>>) >>) >>),
      negative_entry |->
          Arr(<< Arr(<< Arr(<<110, -10>>), Arr(<<99, 1>>) >>),
                 Arr(<< Arr(<<0, 100>>), Arr(<<0, 100>>) >>) >>) ]

\* SimpleMDP(...): `def __init__(self)` takes no argument, so every call that
\* hands it a model raises TypeError before the body runs; "" is the call SimpleMDP().
constructAcceptsModel(supplied) ==
    [ self |-> IF supplied = "" THEN SimpleMDP
               ELSE [SimpleMDP EXCEPT !.transition = SuppliedModels[supplied]],
      ret  |-> [NoCall EXCEPT !.call = "init", !.model = supplied] ]
construct(supplied) ==
    IF supplied # ""
    THEN [ self |-> SimpleMDP,
           ret  |-> [Raised("init", None, "TypeError",
                            "__init__() got an unexpected keyword argument 'transition'")
                       EXCEPT !.model = supplied] ]
    ELSE [ self |-> SimpleMDP,
           ret  |-> [NoCall EXCEPT !.call = "init", !.model = supplied] ]

-----------------------------------------------------------------------------
(* The random generator *)

\* The u in [0, 1) that the generator seeded with `seed` yields at its pos-th draw,
\* in hundredths: a fixed stream per seed (a congruential walk over three levels,
\* one in each interval the transition rows cut [0, 1) into: u < 0.66,
\* 0.66 <= u < 0.99, 0.99 <= u).
UniformLevels == Arr(<<65, 98, 99>>)
Uniform(seed, pos) == UniformLevels[(seed + pos * (seed + 1)) % 3]

\* self.np_random: the generator, created from OS entropy when nothing seeded it.
np_random(self, entropy) ==
    IF self.np_random.seed = None THEN [seed |-> entropy, pos |-> 0]
    ELSE self.np_random

\* Generator.choice(n, p=p): the number of cumulative sums of p that are <= u.
RECURSIVE CumSum(_, _)
CumSum(p, i) == IF i < 0 THEN 0 ELSE p[i] + CumSum(p, i - 1)
choice(n, p, u) == Cardinality({i \in 0 .. (n - 1) : CumSum(p, i) <= u})

-----------------------------------------------------------------------------
(* step *)

\* The two asserts that open step, in order: the failure raised, or NoCall when both pass.
step_assertsResetFirst(self, action) ==
    IF self.state = None THEN Raised("step", action, "AssertionError", NotResetMessage)
    ELSE IF ~DiscreteContains(self.action_space, action) THEN Raised("step", action, "AssertionError", "")
    ELSE NoCall
step_asserts(self, action) ==
    IF ~DiscreteContains(self.action_space, action) THEN Raised("step", action, "AssertionError", "")
    ELSE IF self.state = None THEN Raised("step", action, "AssertionError", NotResetMessage)
    ELSE NoCall

\* done = self.state == 1
IsDoneInverted(state) == state = 0
IsDone(state) == state = 1

\* The `if done:` block: the new steps_beyond_done, the reward and what is logged.
beyond_doneWarnsAlways(done, steps_beyond_done, reward) ==
    IF ~done THEN [steps_beyond_done |-> steps_beyond_done, reward |-> reward, logged |-> ""]
    ELSE IF steps_beyond_done = None THEN [steps_beyond_done |-> 0, reward |-> reward, logged |-> ""]
    ELSE [ steps_beyond_done |-> steps_beyond_done + 1,
           reward |-> 0,
           logged |-> PostTerminalMessage ]
beyond_doneNoIncrement(done, steps_beyond_done, reward) ==
    IF ~done THEN [steps_beyond_done |-> steps_beyond_done, reward |-> reward, logged |-> ""]
    ELSE IF steps_beyond_done = None THEN [steps_beyond_done |-> 0, reward |-> reward, logged |-> ""]
    ELSE [ steps_beyond_done |-> steps_beyond_done,
           reward |-> 0,
           logged |-> IF steps_beyond_done = 0 THEN PostTerminalMessage ELSE "" ]
beyond_done(done, steps_beyond_done, reward) ==
    IF ~done THEN [steps_beyond_done |-> steps_beyond_done, reward |-> reward, logged |-> ""]
    ELSE IF steps_beyond_done = None THEN [steps_beyond_done |-> 0, reward |-> reward, logged |-> ""]
    ELSE [ steps_beyond_done |-> steps_beyond_done + 1,
           reward |-> 0,
           logged |-> IF steps_beyond_done = 0 THEN PostTerminalMessage ELSE "" ]

\* step(action): the engine after the call and the call's outcome.
stepConsumesReward(self, action, entropy) ==
    LET failed == step_asserts(self, action) IN
    IF failed.raised THEN [self |-> self, ret |-> failed]
    ELSE
      LET rng    == np_random(self, entropy)
          u      == Uniform(rng.seed, rng.pos)
          state  == choice(2, Idx(Idx(self.transition, self.state), action), u)
          reward == Idx(Idx(self.reward, state), action)
          done   == IsDone(state)
          bd     == beyond_done(done, self.steps_beyond_done, reward)
      IN  [ self |-> [self EXCEPT !.state = state,
                                  !.steps_beyond_done = bd.steps_beyond_done,
                                  !.np_random = [rng EXCEPT !.pos = rng.pos + 1],
                                  !.reward = [self.reward EXCEPT ![self.state][action] = 0]],
            ret  |-> [NoCall EXCEPT !.call = "step", !.action = action,
                                    !.obs = state, !.reward = bd.reward,
                                    !.done = done, !.info = "{}",
                                    !.logged = bd.logged] ]
step(self, action, entropy) ==
    LET failed == step_asserts(self, action) IN
    IF failed.raised THEN [self |-> self, ret |-> failed]
    ELSE
      LET rng    == np_random(self, entropy)
          u      == Uniform(rng.seed, rng.pos)
          state  == choice(2, Idx(Idx(self.transition, self.state), action), u)
          reward == Idx(Idx(self.reward, state), action)
          done   == IsDone(state)
          bd     == beyond_done(done, self.steps_beyond_done, reward)
      IN  [ self |-> [self EXCEPT !.state = state,
                                  !.steps_beyond_done = bd.steps_beyond_done,
                                  !.np_random = [rng EXCEPT !.pos = rng.pos + 1]],
            ret  |-> [NoCall EXCEPT !.call = "step", !.action = action,
                                    !.obs = state, !.reward = bd.reward,
                                    !.done = done, !.info = "{}",
                                    !.logged = bd.logged] ]

-----------------------------------------------------------------------------
(* reset, render *)

\* super().reset(seed=seed): a given seed replaces the generator.
reseedIgnoresSeed(rng, seed) == rng
reseed(rng, seed) == IF seed # None THEN [seed |-> seed, pos |-> 0] ELSE rng

\* reset(seed=seed, return_info=return_info)
resetKeepsCounter(self, seed, return_info) ==
    [ self |-> [self EXCEPT !.np_random = reseed(self.np_random, seed),
                            !.state = 0],
      ret  |-> [NoCall EXCEPT !.call = "reset", !.seed = seed, !.obs = 0,
                              !.info = IF return_info THEN "{}" ELSE ""] ]
reset(self, seed, return_info) ==
    [ self |-> [self EXCEPT !.np_random = reseed(self.np_random, seed),
                            !.state = 0,
                            !.steps_beyond_done = None],
      ret  |-> [NoCall EXCEPT !.call = "reset", !.seed = seed, !.obs = 0,
                              !.info = IF return_info THEN "{}" ELSE ""] ]

\* render(mode)
renderRaises(self) ==
    [ self |-> self,
      ret  |-> Raised("render", None, "NotImplementedError", "") ]
render(self) ==
    [ self |-> self,
      ret  |-> [NoCall EXCEPT !.call = "render", !.logged = RenderMessage] ]

-----------------------------------------------------------------------------
(* Observation history of engine 1 *)

NoHistory ==
    [ everReset        |-> FALSE,    \* reset has been called since construction
      pre              |-> SimpleMDP,\* the engine's fields before the last call
      episodeSteps     |-> 0,        \* accepted step calls since the last reset
      doneSeen         |-> FALSE,    \* a step since the last reset returned done = True
      stepsAfterDone   |-> 0,        \* accepted step calls since the first of those
      episodeWarns     |-> 0,        \* post-terminal warnings logged since the last reset
      priorWarned      |-> FALSE,    \* an episode before the current one logged the warning
      excInvalidAction |-> "",       \* the exception a step with an invalid action raised
      excNotReset      |-> "" ]      \* the exception a valid step before any reset raised

AfterStep(h, before, action, r) ==
    IF r.raised
    THEN [h EXCEPT !.pre = before,
                   !.excInvalidAction = IF action \notin ValidActions THEN r.exc ELSE @,
                   !.excNotReset = IF action \in ValidActions /\ ~h.everReset THEN r.exc ELSE @]
    ELSE [h EXCEPT !.pre = before,
                   !.episodeSteps = @ + 1,
                   !.stepsAfterDone = IF h.doneSeen THEN @ + 1 ELSE @,
                   !.doneSeen = @ \/ r.done,
                   !.episodeWarns = IF r.logged = PostTerminalMessage THEN @ + 1 ELSE @]

AfterReset(h, before) ==
    [h EXCEPT !.everReset = TRUE,
              !.pre = before,
              !.episodeSteps = 0,
              !.doneSeen = FALSE,
              !.stepsAfterDone = 0,
              !.episodeWarns = 0,
              !.priorWarned = @ \/ h.episodeWarns > 0]

-----------------------------------------------------------------------------
(* One engine, driven by any caller *)

Free == [sync |-> FALSE, differed |-> FALSE]

Init ==
    /\ env = SimpleMDP
    /\ ret = NoCall
    /\ hist = NoHistory
    /\ env2 = SimpleMDP
    /\ ret2 = NoCall
    /\ mode = Free

\* A step the generator can still serve (a rejected step draws nothing).
CanStep(self, out) == out.ret.raised \/ self.np_random.pos < MaxDraws

\* What the OS entropy may seed a generator with, when step has to create it.
Entropy(self) == IF self.np_random.seed = None THEN Seeds ELSE {None}

Step1(action, entropy) ==
    LET out == step(env, action, entropy) IN
    /\ CanStep(env, out)
    /\ env' = out.self
    /\ ret' = out.ret

Reset1(seed, return_info) ==
    LET out == reset(env, seed, return_info) IN
    /\ env' = out.self
    /\ ret' = out.ret

Step(action, entropy) ==
    /\ Step1(action, entropy)
    /\ hist' = AfterStep(hist, env, action, ret')
    /\ UNCHANGED <<env2, ret2, mode>>

Reset(seed, return_info) ==
    /\ Reset1(seed, return_info)
    /\ hist' = AfterReset(hist, env)
    /\ UNCHANGED <<env2, ret2, mode>>

Render ==
    LET out == render(env) IN
    /\ env' = out.self
    /\ ret' = out.ret
    /\ hist' = [hist EXCEPT !.pre = env]
    /\ UNCHANGED <<env2, ret2, mode>>

Next ==
    \/ \E action \in ValidActions \cup InvalidActions, entropy \in Entropy(env) : Step(action, entropy)
    \/ \E seed \in Seeds \cup {None}, return_info \in BOOLEAN : Reset(seed, return_info)
    \/ Render

Spec == Init /\ [][Next]_vars

-----------------------------------------------------------------------------
(* Two engines: each driven freely, then both reset with one seed and stepped *)
(* with the same actions                                                     *)

FreeStep1(action, entropy) ==
    /\ ~mode.sync
    /\ Step1(action, entropy)
    /\ UNCHANGED <<hist, env2, ret2, mode>>

FreeReset1(seed) ==
    /\ ~mode.sync
    /\ Reset1(seed, FALSE)
    /\ UNCHANGED <<hist, env2, ret2, mode>>

FreeStep2(action, entropy) ==
    LET out == step(env2, action, entropy) IN
    /\ ~mode.sync
    /\ CanStep(env2, out)
    /\ env2' = out.self
    /\ ret2' = out.ret
    /\ UNCHANGED <<env, ret, hist, mode>>

FreeReset2(seed) ==
    LET out == reset(env2, seed, FALSE) IN
    /\ ~mode.sync
    /\ env2' = out.self
    /\ ret2' = out.ret
    /\ UNCHANGED <<env, ret, hist, mode>>

\* Both engines are reset with the same seed K, whatever each did before.
PairReset(K) ==
    LET out == reset(env2, K, FALSE) IN
    /\ Reset1(K, FALSE)
    /\ env2' = out.self
    /\ ret2' = out.ret
    /\ mode' = [sync |-> TRUE, differed |-> env.np_random # env2.np_random]
    /\ UNCHANGED hist

\* Both engines are stepped with the same action.
PairStep(action) ==
    LET out == step(env2, action, None) IN
    /\ mode.sync
    /\ CanStep(env2, out)
    /\ Step1(action, None)
    /\ env2' = out.self
    /\ ret2' = out.ret
    /\ UNCHANGED <<hist, mode>>

NextPair ==
    \/ \E action \in ValidActions, entropy \in Entropy(env) : FreeStep1(action, entropy)
    \/ \E seed \in Seeds \cup {None} : FreeReset1(seed)
    \/ \E action \in ValidActions, entropy \in Entropy(env2) : FreeStep2(action, entropy)
    \/ \E seed \in Seeds \cup {None} : FreeReset2(seed)
    \/ \E K \in Seeds : PairReset(K)
    \/ \E action \in ValidActions : PairStep(action)

SpecPair == Init /\ [][NextPair]_vars

-----------------------------------------------------------------------------
(* One engine, which the caller may also replace by a newly constructed one *)

\* env = SimpleMDP(...): when the constructor raises, the caller keeps the engine it had.
Construct(supplied) ==
    LET out == construct(supplied) IN
    /\ env' = IF out.ret.raised THEN env ELSE out.self
    /\ ret' = out.ret
    /\ hist' = IF out.ret.raised THEN [hist EXCEPT !.pre = env]
                ELSE [NoHistory EXCEPT !.pre = env]
    /\ UNCHANGED <<env2, ret2, mode>>

NextConstruct ==
    \/ Next
    \/ \E supplied \in {""} \cup DOMAIN SuppliedModels : Construct(supplied)

SpecConstruct == Init /\ [][NextConstruct]_vars

-----------------------------------------------------------------------------
(* Properties *)

\* "The episode terminates if it reachs S2."
TerminalStates == {1}

AcceptedStep == ret.call = "step" /\ ~ret.raised
RejectedStep == ret.call = "step" /\ ret.raised

\* C1: an accepted step taken while the episode has not terminated returns
\* R[s][action] for the state s before the transition, whatever the destination.
C1_RewardOfPreTransitionState ==
    (AcceptedStep /\ hist.pre.state = 0 /\ hist.pre.steps_beyond_done = None)
        => ret.reward = Idx(Idx(env.reward, hist.pre.state), ret.action)

\* C2: an accepted step taken while the state is the terminal state 1 returns
\* reward 0.0 and done = True.
C2_TerminalStepZeroRewardDone ==
    (AcceptedStep /\ hist.pre.state = 1) => (ret.reward = 0 /\ ret.done)

C2_Witness ==
    /\ AcceptedStep
    /\ hist.pre.state = 1
    /\ hist.pre.steps_beyond_done >= 1
    /\ ret.action = 1

\* C3: the post-terminal warning is logged by exactly the step that moves
\* steps_beyond_done from 0 to 1 and by no other step; so an episode has logged it
\* once if it was stepped after termination and not at all otherwise, and a reset
\* lets the next episode log it again.
C3_WarnsOncePerEpisode ==
    /\ hist.episodeWarns = (IF hist.stepsAfterDone >= 1 THEN 1 ELSE 0)
    /\ AcceptedStep =>
         ( ret.logged = PostTerminalMessage
             <=> (hist.pre.steps_beyond_done = 0 /\ env.steps_beyond_done = 1) )
    /\ RejectedStep => ret.logged = ""

C3_Witness ==
    /\ hist.priorWarned
    /\ hist.episodeWarns = 1
    /\ hist.stepsAfterDone >= 2
    /\ AcceptedStep
    /\ ret.logged = ""

\* C4: steps_beyond_done is None from reset until the first step that returns
\* done = True, 0 right after that step, and k after k further accepted steps; no
\* call but reset lowers or unsets it.
C4_CounterCountsStepsAfterDone ==
    /\ ~hist.everReset => env.steps_beyond_done = None
    /\ hist.everReset =>
         /\ (env.steps_beyond_done = None) <=> ~hist.doneSeen
         /\ hist.doneSeen => env.steps_beyond_done = hist.stepsAfterDone
    /\ (ret.call # "reset" /\ hist.pre.steps_beyond_done # None) =>
         /\ env.steps_beyond_done # None
         /\ env.steps_beyond_done >= hist.pre.steps_beyond_done
    /\ (AcceptedStep /\ hist.pre.steps_beyond_done # None) =>
         env.steps_beyond_done = hist.pre.steps_beyond_done + 1

C4_Witness ==
    /\ AcceptedStep
    /\ hist.doneSeen
    /\ hist.stepsAfterDone = 2
    /\ env.steps_beyond_done = 2

\* C5: reset never fails; whatever the engine was before and whatever the seed, it
\* leaves the engine as a freshly constructed one that was reset (state 0,
\* steps_beyond_done None, tables untouched; only the generator may differ) and
\* returns observation 0.
C5_ResetStartsAfresh ==
    ret.call = "reset" =>
        /\ ~ret.raised
        /\ ret.obs = 0
        /\ env.state = 0
        /\ env.steps_beyond_done = None
        /\ env = [SimpleMDP EXCEPT !.state = 0, !.np_random = env.np_random]

C5_Witness ==
    /\ ret.call = "reset"
    /\ ret.seed # None
    /\ hist.pre.state = 1
    /\ hist.pre.steps_beyond_done >= 1
    /\ hist.priorWarned

\* C6: an accepted step returns the new state as observation, and done = True
\* exactly when that state is terminal, however many steps the episode has taken.
C6_DoneIffTerminal ==
    AcceptedStep =>
        /\ ret.obs = env.state
        /\ ret.done <=> (env.state \in TerminalStates)

C6_Witness ==
    /\ AcceptedStep
    /\ hist.episodeSteps >= 2
    /\ ~ret.done
    /\ env.state = 0

\* C7: before the first reset every step fails, whatever the action, and the engine
\* stays exactly as constructed (so what follows is what follows construction).
C7_StepBeforeResetFails ==
    ~hist.everReset =>
        /\ env = SimpleMDP
        /\ ret.call = "step" => ret.raised

C7_Witness ==
    /\ ~hist.everReset
    /\ RejectedStep
    /\ ret.action \in ValidActions

\* C8: a step with an action outside {0, 1} is rejected in every lifecycle state
\* and leaves every field of the engine as it was, logging nothing.
C8_InvalidActionRejected ==
    (ret.call = "step" /\ ret.action \notin ValidActions) =>
        /\ ret.raised
        /\ env = hist.pre
        /\ ret.logged = ""

C8_Witness ==
    /\ RejectedStep
    /\ ret.action = -1
    /\ hist.pre.state = 1
    /\ hist.pre.steps_beyond_done >= 1

\* C9, as stated: the error a step with an invalid action raises and the error a
\* step before any reset raises are of two distinct kinds.
C9_DistinctErrorKinds ==
    (hist.excInvalidAction # "" /\ hist.excNotReset # "")
        => hist.excInvalidAction # hist.excNotReset

\* C9, amended: both errors are of the one kind AssertionError and differ in their
\* message only: none for an invalid action (checked first, so also before any
\* reset), "Call reset before using step method." for a valid action before reset.
C9_OneKindTwoMessages ==
    RejectedStep =>
        /\ ret.exc = "AssertionError"
        /\ ret.action \notin ValidActions => ret.msg = ""
        /\ ret.action \in ValidActions =>
             (ret.msg = NotResetMessage /\ hist.pre.state = None)

C9_Witness ==
    /\ RejectedStep
    /\ ret.action \notin ValidActions
    /\ hist.pre.state = None
    /\ hist.excNotReset = "AssertionError"
    /\ hist.excInvalidAction = "AssertionError"

\* C10: two engines reset with the same seed and then stepped with the same
\* actions return the same (observation, reward, done) at every step and are in
\* the same state with the same steps_beyond_done, whatever each did before.
C10_SameSeedSameRun ==
    mode.sync =>
        /\ ret.obs = ret2.obs
        /\ ret.reward = ret2.reward
        /\ ret.done = ret2.done
        /\ env.state = env2.state
        /\ env.steps_beyond_done = env2.steps_beyond_done

C10_Witness ==
    /\ mode.sync
    /\ mode.differed
    /\ ret.call = "step"
    /\ env.np_random.pos >= 2
    /\ env.steps_beyond_done >= 0

\* The episode state an engine is in, read off its two episode fields.
Lifecycle(self) ==
    IF self.state = None THEN "UNSTARTED"
    ELSE IF self.state \notin TerminalStates /\ self.steps_beyond_done = None THEN "RUNNING"
    ELSE IF self.steps_beyond_done = 0 THEN "TERMINATED"
    ELSE IF self.steps_beyond_done >= 1 THEN "WARNED"
    ELSE "UNMAPPED"

\* C11: the engine moves through UNSTARTED, RUNNING, TERMINATED, WARNED only as the
\* episode state machine allows: reset leads to RUNNING from anywhere; an accepted
\* step leads from RUNNING to RUNNING or TERMINATED, from TERMINATED to WARNED,
\* from WARNED to WARNED; a step in UNSTARTED (and any rejected step) changes
\* nothing; and every reachable engine is in one of the four states.
C11_RefinesEpisodeStateMachine ==
    /\ Lifecycle(env) # "UNMAPPED"
    /\ ret.call = "reset" => Lifecycle(env) = "RUNNING"
    /\ AcceptedStep =>
         <<Lifecycle(hist.pre), Lifecycle(env)>> \in
             { <<"RUNNING", "RUNNING">>, <<"RUNNING", "TERMINATED">>,
               <<"TERMINATED", "WARNED">>, <<"WARNED", "WARNED">> }
    /\ (ret.call = "step" /\ Lifecycle(hist.pre) = "UNSTARTED") =>
         (ret.raised /\ env = hist.pre)
    /\ RejectedStep => Lifecycle(env) = Lifecycle(hist.pre)

C11_Witness ==
    /\ AcceptedStep
    /\ Lifecycle(hist.pre) = "TERMINATED"
    /\ Lifecycle(env) = "WARNED"
    /\ hist.priorWarned

\* C12: no call changes the transition tensor, the reward matrix, the table P or
\* the two spaces; a call changes at most state, steps_beyond_done and the
\* generator.
C12_TablesNeverChange ==
    /\ env.transition = TransitionTensor
    /\ env.reward = RewardMatrix
    /\ env.P = PTable
    /\ env.action_space = 2
    /\ env.observation_space = 2
    /\ env = [hist.pre EXCEPT !.state = env.state,
                              !.steps_beyond_done = env.steps_beyond_done,
                              !.np_random = env.np_random]
    /\ ret.call \in {"step", "render"} =>
         env.np_random.seed \in {hist.pre.np_random.seed} \cup
             (IF hist.pre.np_random.seed = None THEN Seeds ELSE {})

C12_Witness ==
    /\ AcceptedStep
    /\ hist.episodeSteps >= 2
    /\ hist.pre.state = 0
    /\ env.state = 1
    /\ hist.priorWarned

\* C13: in every reachable state each row transition[s][a] has no negative entry
\* and sums to 1 (100 hundredths), so every accepted step draws its new state from
\* a probability distribution over {0, 1}.
C13_RowsAreDistributions ==
    /\ \A s \in DOMAIN env.transition : \A a \in DOMAIN env.transition[s] :
         /\ DOMAIN env.transition[s][a] = {0, 1}
         /\ \A t \in DOMAIN env.transition[s][a] : env.transition[s][a][t] >= 0
         /\ CumSum(env.transition[s][a], 1) = 100
    /\ AcceptedStep => ret.obs \in {0, 1}

C13_Witness ==
    /\ AcceptedStep
    /\ ret.action = 1
    /\ hist.pre.state = 0
    /\ ret.obs = 1

\* What construction would have to check: every row a distribution.
IsValidModel(t) ==
    \A s \in DOMAIN t : \A a \in DOMAIN t[s] :
        /\ \A n \in DOMAIN t[s][a] : t[s][a][n] >= 0
        /\ CumSum(t[s][a], 1) = 100

\* C14, as stated: construction with a model that has a row not summing to 1 or a
\* negative entry fails with ModelInvalidError and leaves no engine behind.
C14_InvalidModelRaisesModelInvalidError ==
    (ret.call = "init" /\ ret.model # "" /\ ~IsValidModel(SuppliedModels[ret.model])) =>
        /\ ret.raised
        /\ ret.exc = "ModelInvalidError"
        /\ env = hist.pre

\* C14, amended: the constructor takes no model and validates nothing. SimpleMDP()
\* always succeeds with the built-in tensor; handing it any model, valid or not,
\* fails with TypeError and leaves no new engine behind.
C14_ConstructorTakesNoModel ==
    ret.call = "init" =>
        /\ ret.model # "" =>
             (ret.raised /\ ret.exc = "TypeError" /\ env = hist.pre)
        /\ ret.model = "" =>
             (~ret.raised /\ env = SimpleMDP /\ IsValidModel(env.transition))

C14_Witness ==
    /\ ret.call = "init"
    /\ ret.model = "row_sums_to_0_9"
    /\ ~IsValidModel(SuppliedModels[ret.model])
    /\ ret.raised
    /\ hist.everReset
    /\ env.state = 1

\* C15: render never fails in any lifecycle state; it only logs that rendering is
\* not supported and leaves every field of the engine (generator included) as it
\* was, so the calls around it give the results they would give without it.
C15_RenderOnlyLogs ==
    ret.call = "render" =>
        /\ ~ret.raised
        /\ ret.logged = RenderMessage
        /\ env = hist.pre

C15_Witness ==
    /\ ret.call = "render"
    /\ ~hist.everReset
    /\ env.state = None
    /\ hist.excNotReset = "AssertionError"

C15_WitnessAfterTermination ==
    /\ ret.call = "render"
    /\ env.state = 1
    /\ env.steps_beyond_done >= 1

\* C16: the terminal state is absorbing: after a step has returned done = True,
\* every later accepted step of the episode, with either action, leaves the state
\* at 1 and returns observation 1 and done = True; no call but reset takes the
\* state from 1 back to 0.
C16_TerminalStateAbsorbing ==
    /\ (AcceptedStep /\ hist.stepsAfterDone >= 1) =>
         (env.state = 1 /\ ret.obs = 1 /\ ret.done)
    /\ (ret.call \in {"step", "render"} /\ hist.pre.state = 1) => env.state = 1

C16_Witness ==
    /\ AcceptedStep
    /\ hist.stepsAfterDone = 2
    /\ ret.action = 0
    /\ env.state = 1
    /\ ret.done

\* C17: steps_beyond_done is set exactly when the state is the terminal state 1:
\* both fields are None before the first reset, the counter is None while the
\* state is 0, and it is an integer >= 0 while the state is 1.
C17_CounterSetIffTerminal ==
    /\ (env.steps_beyond_done # None) <=> (env.state = 1)
    /\ ~hist.everReset => (env.state = None /\ env.steps_beyond_done = None)
    /\ env.state = 0 => env.steps_beyond_done = None
    /\ env.state = 1 => env.steps_beyond_done >= 0

C17_Witness ==
    /\ env.state = 0
    /\ env.steps_beyond_done = None
    /\ hist.pre.steps_beyond_done >= 1
    /\ ret.call = "reset"

\* The (next_state, reward, done) entries self.P lists for (s, a) with non-zero probability.
Listed(self, s, a) ==
    { <<self.P[s][a][i][2], self.P[s][a][i][3], self.P[s][a][i][4]>> :
          i \in {j \in DOMAIN self.P[s][a] : self.P[s][a][j][1] > 0} }

\* C18: self.P describes step: each probability it lists equals
\* transition[s][a][next_state], and what an accepted step(a) returns from state s
\* is one of the (next_state, reward, done) entries P[s][a] lists with non-zero
\* probability.
C18_PTableDescribesStep ==
    /\ \A s \in DOMAIN env.P : \A a \in DOMAIN env.P[s] : \A i \in DOMAIN env.P[s][a] :
         env.P[s][a][i][1] = env.transition[s][a][env.P[s][a][i][2]]
    /\ AcceptedStep =>
         <<ret.obs, ret.reward, ret.done>> \in Listed(env, hist.pre.state, ret.action)

=============================================================================
